---- MODULE Spec2Model ----
(***************************************************************************)
(* Model of rules.enforcer.Enforcer and rules.contrib.flask.FlaskEnforcer. *)
(*                                                                         *)
(* Every operation of the Enforcer is synchronous and runs to completion,  *)
(* so each is one action.  An action records in `last` the operation, its  *)
(* arguments, the calls it made to its collaborators in order (`events`),  *)
(* the exception that left it (`exc`) and the value it returned (`ret`).   *)
(* Python values are strings; "None" is Python's None.                     *)
(***************************************************************************)
EXTENDS Naturals, Sequences, FiniteSets, TLC

VARIABLES
    klass,           \* klass[e]: class of Enforcer object e, "None" before construction
    _user_loader,    \* _user_loader[e]: instance attribute set by user_loader(), or Unset
    _error_handler,  \* _error_handler[e]: instance attribute set by error_handler(), or Unset
    decorated,       \* the wrapper closure produced by the latest requires(...)(func)
    last             \* the latest operation and what it did

vars == <<klass, _user_loader, _error_handler, decorated, last>>

None == "None"
Unset == "Unset"

\* ---------------------------------------------------------------- universes

Enforcers == {"e1", "e2"}
Primary == {"e1"}
Classes == {"Enforcer", "FlaskEnforcer"}

\* Application users.  "Anon" is an application-defined user object that is
\* falsy in Python (an anonymous user with __bool__ False, 0, "", ...).
Users == {"Alice", "Anon"}
Targets == {"Doc1"}
Falsy == {None, "Anon"}

Truthy(v) == v \notin Falsy

Predicates == {"always_true", "always_false"}

\* predicate.test(user, target)
PredTest(predicate, user, target) ==
    CASE predicate = "always_true" -> TRUE
      [] predicate = "always_false" -> FALSE

UserLoaders == {"load_alice", "load_anon"}
TargetLoaders == {"get_doc1"}
\* Failure handlers the application registers, and those it passes as on_failure.
Handlers == {"deny", "audit"}
OnFailures == {"log_predicate", "deny_user"}
Funcs == {"view_secret"}
FuncArgs == {"s1", "s2"}

\* ---------------------------------------------------------------- results

NoExc == [type |-> None, predicate |-> None, user |-> None]

Exc(type, predicate, user) == [type |-> type, predicate |-> predicate, user |-> user]

Ev(kind, fn, args) == [kind |-> kind, fn |-> fn, args |-> args]

Res(events, exc, ret) == [events |-> events, exc |-> exc, ret |-> ret]

Str(b) == IF b THEN "True" ELSE "False"

\* ---------------------------------------------------------------- callables

\* The application's callables: what each does when called.
\* A user loader registered by the application returns its user.
LoaderReturn(fn) ==
    CASE fn = "load_alice" -> "Alice"
      [] fn = "load_anon" -> "Anon"

TargetLoaderReturn(fn) ==
    CASE fn = "get_doc1" -> "Doc1"

\* func(*args, **kwargs)
FuncBody(func, args) ==
    CASE args = "s1" -> "secret_of_s1"
      [] args = "s2" -> "secret_of_s2"

\* _default_user_loader as it would be if it returned None instead of raising.
_default_user_loader_returns_none == Res(<<>>, NoExc, None)

\* Enforcer._default_user_loader(self)
_default_user_loader == Res(<<>>, Exc("NotImplementedError", None, None), None)

\* _default_error_handler as it would be if it raised PermissionDenied bare.
_default_error_handler_no_payload(predicate, user, target) ==
    Exc("PermissionDenied", None, None)

\* Enforcer._default_error_handler(self, predicate, user=None, target=None)
_default_error_handler(predicate, user, target) == Exc("PermissionDenied", predicate, user)

\* FlaskEnforcer._default_error_handler(self, predicate, user=None, target=None)
Flask_default_error_handler(predicate, user, target) == Exc("Forbidden", None, None)

\* len(inspect.signature(fail_handler).parameters); a bound method does not
\* count self.
Parameters(fn) ==
    CASE fn = "Enforcer._default_error_handler" -> 3
      [] fn = "FlaskEnforcer._default_error_handler" -> 3
      [] fn = "deny" -> 0
      [] fn = "log_predicate" -> 1
      [] fn = "deny_user" -> 2
      [] fn = "audit" -> 3

\* Positional argument i of a call, or the parameter's default None.
Arg(args, i) == IF i <= Len(args) THEN args[i] ELSE None

\* fail_handler(*args): the exception the handler raises, NoExc when it returns.
HandlerCall(fn, args) ==
    CASE fn = "Enforcer._default_error_handler" ->
             _default_error_handler(Arg(args, 1), Arg(args, 2), Arg(args, 3))
      [] fn = "FlaskEnforcer._default_error_handler" ->
             Flask_default_error_handler(Arg(args, 1), Arg(args, 2), Arg(args, 3))
      [] fn = "deny" -> Exc("CustomDenied", None, None)
      [] fn = "deny_user" -> Exc("CustomDenied", None, None)
      [] fn = "log_predicate" -> NoExc
      [] fn = "audit" -> NoExc

\* ---------------------------------------------------------------- classes

\* The attributes each class body defines.
ClassDict(cls) ==
    CASE cls = "Enforcer" ->
             ("_default_error_handler" :> "Enforcer._default_error_handler")
          @@ ("_default_user_loader" :> "Enforcer._default_user_loader")
          @@ ("_user_loader" :> "Enforcer._default_user_loader")
          @@ ("_error_handler" :> "Enforcer._default_error_handler")
      [] cls = "FlaskEnforcer" ->
             ("_default_error_handler" :> "FlaskEnforcer._default_error_handler")

\* class FlaskEnforcer(Enforcer)
Base(cls) == IF cls = "FlaskEnforcer" THEN "Enforcer" ELSE "object"

\* Attribute lookup along the method resolution order.
RECURSIVE ClassAttr(_, _)
ClassAttr(cls, name) ==
    IF cls = "object" THEN "AttributeError"
    ELSE IF name \in DOMAIN ClassDict(cls) THEN ClassDict(cls)[name]
    ELSE ClassAttr(Base(cls), name)

\* self._user_loader: the instance attribute, else the class attribute.
self_user_loader(self) ==
    IF _user_loader[self] # Unset THEN _user_loader[self]
    ELSE ClassAttr(klass[self], "_user_loader")

\* self._error_handler: the instance attribute, else the class attribute.
self_error_handler(self) ==
    IF _error_handler[self] # Unset THEN _error_handler[self]
    ELSE ClassAttr(klass[self], "_error_handler")

\* fn(): what calling the user loader fn does.
LoaderCall(fn) ==
    IF fn = "Enforcer._default_user_loader" THEN _default_user_loader
    ELSE Res(<<>>, NoExc, LoaderReturn(fn))

\* self._user_loader()
CallUserLoader(self) ==
    LET fn == self_user_loader(self)
    IN Res(<<Ev("user_loader", fn, <<>>)>>, LoaderCall(fn).exc, LoaderCall(fn).ret)

\* ---------------------------------------------------------------- Enforcer

Min(a, b) == IF a <= b THEN a ELSE b

\* _fail as it would be without the arity slice: fail_handler(*fargs).
_fail_no_truncation(self, predicate, user, target, fail_handler) ==
    LET fh == IF Truthy(fail_handler) THEN fail_handler ELSE self_error_handler(self)
        fargs == <<predicate, user, target>>
    IN Res(<<Ev("handler", fh, fargs)>>, HandlerCall(fh, fargs), None)

\* _fail as it would be if it ignored fail_handler: always self._error_handler.
_fail_ignores_override(self, predicate, user, target, fail_handler) ==
    LET fh == self_error_handler(self)
        fargs == <<predicate, user, target>>
        passed == SubSeq(fargs, 1, Min(Parameters(fh), Len(fargs)))
    IN Res(<<Ev("handler", fh, passed)>>, HandlerCall(fh, passed), None)

\* Enforcer._fail(self, predicate, user, target, fail_handler=None)
_fail(self, predicate, user, target, fail_handler) ==
    LET fh == IF Truthy(fail_handler) THEN fail_handler ELSE self_error_handler(self)
        fargs == <<predicate, user, target>>
        passed == SubSeq(fargs, 1, Min(Parameters(fh), Len(fargs)))
    IN Res(<<Ev("handler", fh, passed)>>, HandlerCall(fh, passed), None)

\* user = user or self._user_loader()
ResolveUser(self, user) ==
    IF Truthy(user) THEN Res(<<>>, NoExc, user) ELSE CallUserLoader(self)

\* ensure as it would be if it dropped the result of predicate.test.
ensure_skips_fail(self, predicate, user, target, on_failure) ==
    LET r == ResolveUser(self, user)
    IN IF r.exc # NoExc THEN Res(r.events, r.exc, None)
       ELSE Res(r.events \o <<Ev("test", predicate, <<r.ret, target>>)>>, NoExc, None)

\* Enforcer.ensure(self, predicate, user=None, target=None, on_failure=None)
ensure(self, predicate, user, target, on_failure) ==
    LET r == ResolveUser(self, user)
    IN IF r.exc # NoExc THEN Res(r.events, r.exc, None)
       ELSE LET tested == r.events \o <<Ev("test", predicate, <<r.ret, target>>)>>
            IN IF PredTest(predicate, r.ret, target)
               THEN Res(tested, NoExc, None)
               ELSE LET f == _fail(self, predicate, r.ret, target, on_failure)
                    IN Res(tested \o f.events, f.exc, None)

\* Enforcer.test(self, predicate, user=None, target=None)
test(self, predicate, user, target) ==
    LET r == ResolveUser(self, user)
    IN IF r.exc # NoExc THEN Res(r.events, r.exc, None)
       ELSE Res(r.events \o <<Ev("test", predicate, <<r.ret, target>>)>>,
                NoExc, Str(PredTest(predicate, r.ret, target)))

\* target = target_loader() if target_loader else None
ResolveTarget(target_loader) ==
    IF Truthy(target_loader)
    THEN Res(<<Ev("target_loader", target_loader, <<>>)>>, NoExc,
             TargetLoaderReturn(target_loader))
    ELSE Res(<<>>, NoExc, None)

\* The closure requires(predicate, target_loader, on_failure)(func) returns.
Closure(self, predicate, target_loader, on_failure, func) ==
    [self |-> self, predicate |-> predicate, target_loader |-> target_loader,
     on_failure |-> on_failure, func |-> func]

NoClosure == Closure(None, None, None, None, None)

\* wrapper as it would be without `return`: func is called, its result dropped.
wrapper_drops_result(c, args) ==
    LET u == CallUserLoader(c.self)
    IN IF u.exc # NoExc THEN Res(u.events, u.exc, None)
       ELSE LET t == ResolveTarget(c.target_loader)
                e == ensure(c.self, c.predicate, u.ret, t.ret, None)
                checked == u.events \o t.events \o e.events
            IN IF e.exc # NoExc THEN Res(checked, e.exc, None)
               ELSE Res(checked \o <<Ev("func", c.func, <<args>>)>>, NoExc, None)

\* wrapper as it would be if a denial blocked func even when the handler returned.
wrapper_blocks_on_denial(c, args) ==
    LET u == CallUserLoader(c.self)
    IN IF u.exc # NoExc THEN Res(u.events, u.exc, None)
       ELSE LET t == ResolveTarget(c.target_loader)
                e == ensure(c.self, c.predicate, u.ret, t.ret, None)
                checked == u.events \o t.events \o e.events
            IN IF e.exc # NoExc THEN Res(checked, e.exc, None)
               ELSE IF ~PredTest(c.predicate, u.ret, t.ret) THEN Res(checked, NoExc, None)
               ELSE Res(checked \o <<Ev("func", c.func, <<args>>)>>, NoExc,
                        FuncBody(c.func, args))

\* wrapper as it would be if it caught what ensure raises and went on to func.
wrapper_swallows(c, args) ==
    LET u == CallUserLoader(c.self)
    IN IF u.exc # NoExc THEN Res(u.events, u.exc, None)
       ELSE LET t == ResolveTarget(c.target_loader)
                e == ensure(c.self, c.predicate, u.ret, t.ret, None)
                checked == u.events \o t.events \o e.events
            IN Res(checked \o <<Ev("func", c.func, <<args>>)>>, NoExc,
                   FuncBody(c.func, args))

\* Enforcer.requires.<locals>.decorator.<locals>.wrapper(*args, **kwargs)
wrapper(c, args) ==
    LET u == CallUserLoader(c.self)
    IN IF u.exc # NoExc THEN Res(u.events, u.exc, None)
       ELSE LET t == ResolveTarget(c.target_loader)
                e == ensure(c.self, c.predicate, u.ret, t.ret, None)
                checked == u.events \o t.events \o e.events
            IN IF e.exc # NoExc THEN Res(checked, e.exc, None)
               ELSE Res(checked \o <<Ev("func", c.func, <<args>>)>>, NoExc,
                        FuncBody(c.func, args))

\* user_loader as it would be without `return fn`.
user_loader_returns_none(self, fn) ==
    [attr |-> [_user_loader EXCEPT ![self] = fn], ret |-> None]

\* Enforcer.user_loader(self, fn): the new instance attributes and the value returned.
user_loader(self, fn) ==
    [attr |-> [_user_loader EXCEPT ![self] = fn], ret |-> fn]

\* error_handler as it would be if it assigned the class attribute
\* (Enforcer._error_handler = fn), which every instance reads.
error_handler_on_class(self, fn) ==
    [attr |-> [e \in Enforcers |-> fn], ret |-> fn]

\* Enforcer.error_handler(self, fn): the new instance attributes and the value returned.
error_handler(self, fn) ==
    [attr |-> [_error_handler EXCEPT ![self] = fn], ret |-> fn]

\* ---------------------------------------------------------------- operations

\* The record of an operation; the fields an operation does not have are None.
Blank ==
    [op |-> None, self |-> None, cls |-> None, fn |-> None, predicate |-> None,
     user |-> None, target |-> None, on_failure |-> None, target_loader |-> None,
     func |-> None, args |-> None, events |-> <<>>, exc |-> NoExc, ret |-> None]

Init ==
    /\ klass = [e \in Enforcers |-> None]
    /\ _user_loader = [e \in Enforcers |-> Unset]
    /\ _error_handler = [e \in Enforcers |-> Unset]
    /\ decorated = NoClosure
    /\ last = Blank

\* cls(user_loader=ul, error_handler=eh): Enforcer.__init__
__init__(self, cls, ul, eh) ==
    /\ klass[self] = None
    /\ klass' = [klass EXCEPT ![self] = cls]
    /\ _user_loader' = IF Truthy(ul) THEN user_loader(self, ul).attr ELSE _user_loader
    /\ _error_handler' = IF Truthy(eh) THEN error_handler(self, eh).attr ELSE _error_handler
    /\ last' = [Blank EXCEPT !.op = "__init__", !.self = self, !.cls = cls,
                             !.fn = ul, !.on_failure = eh]
    /\ UNCHANGED decorated

\* self.user_loader(fn)
UserLoader(self, fn) ==
    /\ klass[self] # None
    /\ _user_loader' = user_loader(self, fn).attr
    /\ last' = [Blank EXCEPT !.op = "user_loader", !.self = self, !.fn = fn,
                             !.ret = user_loader(self, fn).ret]
    /\ UNCHANGED <<klass, _error_handler, decorated>>

\* self.error_handler(fn)
ErrorHandler(self, fn) ==
    /\ klass[self] # None
    /\ _error_handler' = error_handler(self, fn).attr
    /\ last' = [Blank EXCEPT !.op = "error_handler", !.self = self, !.fn = fn,
                             !.ret = error_handler(self, fn).ret]
    /\ UNCHANGED <<klass, _user_loader, decorated>>

\* Ensure as it would be if on_failure were stored as the configured handler.
Ensure_persists_on_failure(self, predicate, user, target, on_failure) ==
    /\ klass[self] # None
    /\ LET r == ensure(self, predicate, user, target, on_failure)
       IN last' = [Blank EXCEPT !.op = "ensure", !.self = self, !.predicate = predicate,
                                !.user = user, !.target = target,
                                !.on_failure = on_failure,
                                !.events = r.events, !.exc = r.exc, !.ret = r.ret]
    /\ _error_handler' = IF Truthy(on_failure)
                         THEN [_error_handler EXCEPT ![self] = on_failure]
                         ELSE _error_handler
    /\ UNCHANGED <<klass, _user_loader, decorated>>

\* self.ensure(predicate, user, target, on_failure)
Ensure(self, predicate, user, target, on_failure) ==
    /\ klass[self] # None
    /\ LET r == ensure(self, predicate, user, target, on_failure)
       IN last' = [Blank EXCEPT !.op = "ensure", !.self = self, !.predicate = predicate,
                                !.user = user, !.target = target,
                                !.on_failure = on_failure,
                                !.events = r.events, !.exc = r.exc, !.ret = r.ret]
    /\ UNCHANGED <<klass, _user_loader, _error_handler, decorated>>

\* self.test(predicate, user, target)
Test(self, predicate, user, target) ==
    /\ klass[self] # None
    /\ LET r == test(self, predicate, user, target)
       IN last' = [Blank EXCEPT !.op = "test", !.self = self, !.predicate = predicate,
                                !.user = user, !.target = target,
                                !.events = r.events, !.exc = r.exc, !.ret = r.ret]
    /\ UNCHANGED <<klass, _user_loader, _error_handler, decorated>>

\* self.requires(predicate, target_loader, on_failure)(func)
Requires(self, predicate, target_loader, on_failure, func) ==
    /\ klass[self] # None
    /\ decorated' = Closure(self, predicate, target_loader, on_failure, func)
    /\ last' = [Blank EXCEPT !.op = "requires", !.self = self, !.predicate = predicate,
                             !.target_loader = target_loader,
                             !.on_failure = on_failure, !.func = func]
    /\ UNCHANGED <<klass, _user_loader, _error_handler>>

\* A call wrapper(args) of the decorated function.
Wrapper(args) ==
    /\ decorated # NoClosure
    /\ LET r == wrapper(decorated, args)
       IN last' = [Blank EXCEPT !.op = "wrapper", !.self = decorated.self,
                                !.predicate = decorated.predicate,
                                !.target_loader = decorated.target_loader,
                                !.on_failure = decorated.on_failure,
                                !.func = decorated.func, !.args = args,
                                !.events = r.events, !.exc = r.exc, !.ret = r.ret]
    /\ UNCHANGED <<klass, _user_loader, _error_handler, decorated>>

Next ==
    \/ \E self \in Primary, cls \in Classes,
          ul \in UserLoaders \cup {None}, eh \in Handlers \cup {None} :
          __init__(self, cls, ul, eh)
    \/ \E self \in Primary, fn \in UserLoaders : UserLoader(self, fn)
    \/ \E self \in Primary, fn \in Handlers : ErrorHandler(self, fn)
    \/ \E self \in Primary, predicate \in Predicates, user \in Users \cup {None},
          target \in Targets \cup {None}, on_failure \in OnFailures \cup {None} :
          Ensure(self, predicate, user, target, on_failure)
    \/ \E self \in Primary, predicate \in Predicates, user \in Users \cup {None},
          target \in Targets \cup {None} :
          Test(self, predicate, user, target)
    \/ \E self \in Primary, predicate \in Predicates,
          target_loader \in TargetLoaders \cup {None},
          on_failure \in OnFailures \cup {None}, func \in Funcs :
          Requires(self, predicate, target_loader, on_failure, func)
    \/ \E args \in FuncArgs : Wrapper(args)

Spec == Init /\ [][Next]_vars

\* ---------------------------------------------------------------- properties

\* The positions in operation l's events that are calls of the given kind.
Kinds(l, kind) == {i \in DOMAIN l.events : l.events[i].kind = kind}

Count(l, kind) == Cardinality(Kinds(l, kind))

\* The check of operation l evaluated its predicate to false.
Denied(l) ==
    \E i \in Kinds(l, "test") :
        ~PredTest(l.events[i].fn, l.events[i].args[1], l.events[i].args[2])

\* C1: a call ensure(P, U, T) with an explicit user U evaluates P.test(U, T)
\* exactly once and invokes the failure handler (on_failure if given, else the
\* configured handler) exactly once if P.test(U, T) is false and not at all if
\* it is true.
C1_EnsureExactlyOneOutcome ==
    (last.op = "ensure" /\ last.user # None) =>
        /\ Count(last, "test") = 1
        /\ \A i \in Kinds(last, "test") :
               /\ last.events[i].fn = last.predicate
               /\ last.events[i].args = <<last.user, last.target>>
        /\ Count(last, "handler") =
               IF PredTest(last.predicate, last.user, last.target) THEN 0 ELSE 1
        /\ \A i \in Kinds(last, "handler") :
               last.events[i].fn = IF last.on_failure # None THEN last.on_failure
                                   ELSE self_error_handler(last.self)

\* C2: in ensure and test an explicit user (any value but the omitted-argument
\* default None) never invokes the user loader and is the user the predicate
\* is tested against; an omitted user invokes the user loader exactly once.
C2_ExplicitUserNeverLoads ==
    (last.op \in {"ensure", "test"}) =>
        IF last.user # None
        THEN /\ Count(last, "user_loader") = 0
             /\ \A i \in Kinds(last, "test") : last.events[i].args[1] = last.user
        ELSE Count(last, "user_loader") = 1

\* C3: a FlaskEnforcer with no failure handler registered, denied in ensure or
\* in a requires wrapper without a per-call on_failure, raises Forbidden from
\* its own default failure handler, not PermissionDenied.
C3_FlaskDeniesWithForbidden ==
    (/\ last.op \in {"ensure", "wrapper"}
     /\ klass[last.self] = "FlaskEnforcer"
     /\ _error_handler[last.self] = Unset
     /\ last.on_failure = None
     /\ Denied(last)) =>
        /\ last.exc.type = "Forbidden"
        /\ \A i \in Kinds(last, "handler") :
               last.events[i].fn = "FlaskEnforcer._default_error_handler"

\* C4: a denied call of a wrapper made by requires(..., on_failure=h) invokes
\* h exactly once and does not invoke the configured failure handler.
C4_WrapperUsesOnFailure ==
    (last.op = "wrapper" /\ last.on_failure # None /\ Denied(last)) =>
        /\ Count(last, "handler") = 1
        /\ \A i \in Kinds(last, "handler") : last.events[i].fn = last.on_failure

\* C5: every call of a requires wrapper invokes the user loader exactly once,
\* whatever the loader returns; no check invokes it more than once.
C5_LoaderOncePerCheck ==
    /\ last.op = "wrapper" => Count(last, "user_loader") = 1
    /\ Count(last, "user_loader") <= 1

\* C6: on denial a failure handler declared with n parameters, n in 0..3, is
\* called with exactly the first n of (predicate, user, target), the values
\* predicate.test was just called with in that check.
C6_ArityTruncation ==
    \A i \in Kinds(last, "handler") :
        LET h == last.events[i]
            n == Parameters(h.fn)
        IN /\ n \in 0..3
           /\ i > 1
           /\ last.events[i - 1].kind = "test"
           /\ last.events[i - 1].fn = last.predicate
           /\ last.op = "ensure" => last.events[i - 1].args[2] = last.target
           /\ h.args = SubSeq(<<last.events[i - 1].fn>> \o last.events[i - 1].args, 1, n)

\* A denied ensure called a two-parameter handler with (predicate, user) only.
C6_Witness ==
    /\ last.op = "ensure"
    /\ last.target = "Doc1"
    /\ \E i \in Kinds(last, "handler") :
           /\ last.events[i].fn = "deny_user"
           /\ last.events[i].args = <<"always_false", "Alice">>

\* A denied ensure invokes one handler: its on_failure if given, else the
\* handler configured before the call; the call leaves the configured one alone.
C7Step ==
    (last'.op = "ensure" /\ Denied(last')) =>
        /\ Count(last', "handler") = 1
        /\ \A i \in Kinds(last', "handler") :
               last'.events[i].fn = IF last'.on_failure # None THEN last'.on_failure
                                    ELSE self_error_handler(last'.self)
        /\ _error_handler' = _error_handler

\* C7: on_failure given to one ensure call is the handler invoked on denial of
\* that call, not the configured one, and the configured handler is unchanged:
\* a later denied ensure without on_failure invokes the configured handler.
C7_OnFailureOverride == [][C7Step]_vars

\* A denied ensure ran its on_failure while another handler stays configured.
C7_Witness ==
    /\ last.op = "ensure"
    /\ last.on_failure = "log_predicate"
    /\ _error_handler[last.self] = "deny"
    /\ \E i \in Kinds(last, "handler") : last.events[i].fn = "log_predicate"

\* The user loader of wrapper call l returned normally.
LoaderReturned(l) ==
    /\ Kinds(l, "user_loader") # {}
    /\ \A i \in Kinds(l, "user_loader") : LoaderCall(l.events[i].fn).exc = NoExc

\* C8 as stated: for an always-false predicate a requires wrapper never calls
\* the wrapped function and invokes the failure handler exactly once (read
\* here of the calls that reach the check, their user loader having returned).
C8_FalseNeverCallsFunc ==
    (last.op = "wrapper" /\ last.predicate = "always_false" /\ LoaderReturned(last)) =>
        /\ Count(last, "func") = 0
        /\ Count(last, "handler") = 1

\* C8 amended: for an always-false predicate a requires wrapper whose user
\* loader returns normally invokes a failure handler exactly once, and calls
\* the wrapped function exactly once if that handler returns normally and
\* never if it aborts.
C8_FalseCallsFuncOnlyIfHandlerReturns ==
    (last.op = "wrapper" /\ last.predicate = "always_false" /\ LoaderReturned(last)) =>
        /\ Count(last, "handler") = 1
        /\ \A i \in Kinds(last, "handler") :
               Count(last, "func") =
                   IF HandlerCall(last.events[i].fn, last.events[i].args) = NoExc
                   THEN 1 ELSE 0

\* An always-false wrapper call whose handler aborted, so func never ran.
C8_Witness ==
    /\ last.op = "wrapper"
    /\ last.predicate = "always_false"
    /\ LoaderReturned(last)
    /\ Count(last, "handler") = 1
    /\ last.exc.type = "PermissionDenied"
    /\ Count(last, "func") = 0

\* C9: if the failure handler invoked for a denied check returns normally,
\* ensure returns normally, and a requires wrapper then calls the wrapped
\* function exactly once with its arguments and returns its result.
C9_SilencedDenialProceeds ==
    \A i \in Kinds(last, "handler") :
        HandlerCall(last.events[i].fn, last.events[i].args) = NoExc =>
            /\ last.exc = NoExc
            /\ last.op = "ensure" => last.ret = None
            /\ last.op = "wrapper" =>
                   /\ Count(last, "func") = 1
                   /\ \A j \in Kinds(last, "func") :
                          /\ j > i
                          /\ last.events[j].fn = last.func
                          /\ last.events[j].args = <<last.args>>
                   /\ last.ret = FuncBody(last.func, last.args)

\* A wrapper call denied, silenced by a returning handler, then ran func.
C9_Witness ==
    /\ last.op = "wrapper"
    /\ \E i \in Kinds(last, "handler") : last.events[i].fn = "audit"
    /\ Count(last, "func") = 1
    /\ last.ret = "secret_of_s2"

\* C10: when the failure handler aborts, the same abort leaves ensure or the
\* wrapper, and the wrapped function is not executed in that invocation.
C10_AbortPropagates ==
    \A i \in Kinds(last, "handler") :
        LET x == HandlerCall(last.events[i].fn, last.events[i].args)
        IN x # NoExc =>
               /\ last.exc = x
               /\ i = Len(last.events)
               /\ Count(last, "func") = 0

\* A wrapper call whose registered handler raised: the abort left the wrapper.
C10_Witness ==
    /\ last.op = "wrapper"
    /\ \E i \in Kinds(last, "handler") : last.events[i].fn = "deny"
    /\ last.exc.type = "CustomDenied"
    /\ Count(last, "func") = 0

\* C11: on an Enforcer with no user loader registered, ensure or test called
\* without a user fails with the "user loader not registered" error
\* (NotImplementedError); the predicate is never evaluated and no failure
\* handler is invoked in that call.
C11_UnregisteredLoaderFailsFirst ==
    (/\ last.op \in {"ensure", "test"}
     /\ last.user = None
     /\ _user_loader[last.self] = Unset) =>
        /\ last.exc = Exc("NotImplementedError", None, None)
        /\ Count(last, "test") = 0
        /\ Count(last, "handler") = 0
        /\ last.events = <<Ev("user_loader", "Enforcer._default_user_loader", <<>>)>>

\* ensure without a user on an Enforcer built with no hooks at all.
C11_Witness ==
    /\ last.op = "ensure"
    /\ last.user = None
    /\ last.predicate = "always_false"
    /\ _user_loader[last.self] = Unset
    /\ _error_handler[last.self] = Unset
    /\ last.exc.type = "NotImplementedError"

\* C12: test(P, U, T) with an explicit user U returns exactly the boolean
\* P.test of the resolved user and T, evaluates the predicate exactly once
\* and never invokes a failure handler.
C12_TestReturnsPredicate ==
    (last.op = "test" /\ last.user # None) =>
        /\ Count(last, "test") = 1
        /\ Count(last, "handler") = 0
        /\ last.exc = NoExc
        /\ \A i \in Kinds(last, "test") :
               /\ last.events[i].fn = last.predicate
               /\ last.events[i].args[2] = last.target
               /\ last.ret = Str(PredTest(last.predicate, last.events[i].args[1],
                                          last.target))

\* C13: on a base Enforcer with no failure handler registered, a denied
\* ensure without on_failure passes predicate, user and target to the default
\* handler and aborts with PermissionDenied carrying the failing predicate
\* and the resolved user; it never returns normally.
C13_DefaultHandlerRaisesPermissionDenied ==
    (/\ last.op = "ensure"
     /\ klass[last.self] = "Enforcer"
     /\ _error_handler[last.self] = Unset
     /\ last.on_failure = None
     /\ Denied(last)) =>
        /\ Count(last, "handler") = 1
        /\ \A i \in Kinds(last, "handler") :
               /\ last.events[i].fn = "Enforcer._default_error_handler"
               /\ Len(last.events[i].args) = 3
               /\ last.events[i].args[1] = last.predicate
               /\ last.events[i].args[3] = last.target
               /\ last.exc = Exc("PermissionDenied", last.predicate,
                                 last.events[i].args[2])
               /\ \A j \in Kinds(last, "test") :
                      last.events[j].args[1] = last.events[i].args[2]

\* A denied ensure on a bare Enforcer whose user came from the user loader.
C13_Witness ==
    /\ last.op = "ensure"
    /\ klass[last.self] = "Enforcer"
    /\ _error_handler[last.self] = Unset
    /\ last.user = None
    /\ last.target = "Doc1"
    /\ last.exc = Exc("PermissionDenied", "always_false", "Alice")

\* C14 as stated: for an always-true predicate every call of a requires
\* wrapper calls the wrapped function exactly once with the wrapper's
\* arguments, returns its result and never invokes a failure handler.
C14_TrueAlwaysCallsFunc ==
    (last.op = "wrapper" /\ last.predicate = "always_true") =>
        /\ Count(last, "func") = 1
        /\ \A j \in Kinds(last, "func") :
               last.events[j].fn = last.func /\ last.events[j].args = <<last.args>>
        /\ last.exc = NoExc
        /\ last.ret = FuncBody(last.func, last.args)
        /\ Count(last, "handler") = 0

\* C14 amended: for an always-true predicate every call of a requires wrapper
\* whose user loader returns normally calls the wrapped function exactly once
\* with the wrapper's arguments, returns its result and never invokes a
\* failure handler.
C14_TrueCallsFuncWhenLoaderReturns ==
    (last.op = "wrapper" /\ last.predicate = "always_true" /\ LoaderReturned(last)) =>
        /\ Count(last, "func") = 1
        /\ \A j \in Kinds(last, "func") :
               last.events[j].fn = last.func /\ last.events[j].args = <<last.args>>
        /\ last.exc = NoExc
        /\ last.ret = FuncBody(last.func, last.args)
        /\ Count(last, "handler") = 0

\* An always-true wrapper call with a target loader that ran func on "s2".
C14_Witness ==
    /\ last.op = "wrapper"
    /\ last.predicate = "always_true"
    /\ last.target_loader = "get_doc1"
    /\ LoaderReturned(last)
    /\ Count(last, "func") = 1
    /\ last.ret = "secret_of_s2"

\* The kinds of the calls operation l made, in order.
KindSeq(l) == [i \in DOMAIN l.events |-> l.events[i].kind]

\* The order claimed for a wrapper call: user loader; target loader if one was
\* supplied; predicate.test; the failure handler if denied; the wrapped
\* function if nothing aborted.  A call whose user loader aborts ends there.
ClaimedOrder(l) ==
    IF LoaderCall(l.events[1].fn).exc # NoExc THEN <<"user_loader">>
    ELSE <<"user_loader">>
         \o (IF l.target_loader # None THEN <<"target_loader">> ELSE <<>>)
         \o <<"test">>
         \o (IF Denied(l) THEN <<"handler">> ELSE <<>>)
         \o (IF l.exc = NoExc THEN <<"func">> ELSE <<>>)

\* C16: within one call of a requires wrapper the calls occur in this order:
\* user loader, target loader (once iff supplied, else target is None),
\* predicate.test with that user and target, the failure handler (only on
\* denial), the wrapped function (only after ensure returned normally).
C16_WrapperOrder ==
    (last.op = "wrapper") =>
        /\ Len(last.events) >= 1
        /\ KindSeq(last) = ClaimedOrder(last)
        /\ \A i \in Kinds(last, "target_loader") : last.events[i].fn = last.target_loader
        /\ \A i \in Kinds(last, "test") :
               /\ last.events[i].fn = last.predicate
               /\ last.events[i].args =
                      <<LoaderCall(last.events[1].fn).ret,
                        IF last.target_loader # None
                        THEN TargetLoaderReturn(last.target_loader) ELSE None>>

\* A registration returns its function and installs it, leaving the other hook
\* alone; the constructor installs what it is given as the setters would; no
\* other step changes a hook; a check calls the user loader and (without
\* on_failure) the failure handler installed when it starts.
C15Step ==
    /\ last'.op = "user_loader" =>
           /\ last'.ret = last'.fn
           /\ _user_loader'[last'.self] = last'.fn
           /\ _error_handler' = _error_handler
    /\ last'.op = "error_handler" =>
           /\ last'.ret = last'.fn
           /\ _error_handler'[last'.self] = last'.fn
           /\ _user_loader' = _user_loader
    /\ last'.op = "__init__" =>
           /\ _user_loader'[last'.self] = IF last'.fn # None THEN last'.fn ELSE Unset
           /\ _error_handler'[last'.self] =
                  IF last'.on_failure # None THEN last'.on_failure ELSE Unset
    /\ last'.op \in {"ensure", "test", "wrapper", "requires"} =>
           /\ _user_loader' = _user_loader
           /\ _error_handler' = _error_handler
    /\ last'.op \in {"ensure", "test", "wrapper"} =>
           /\ (last'.op = "wrapper" \/ last'.user = None) =>
                  Count(last', "user_loader") >= 1
           /\ _user_loader[last'.self] # Unset =>
                  \A i \in Kinds(last', "user_loader") :
                      last'.events[i].fn = _user_loader[last'.self]
           /\ (/\ last'.op # "test"
               /\ last'.on_failure = None
               /\ Denied(last')
               /\ _error_handler[last'.self] # Unset) =>
                  /\ Count(last', "handler") = 1
                  /\ \A i \in Kinds(last', "handler") :
                         last'.events[i].fn = _error_handler[last'.self]

\* C15: each user_loader(fn) / error_handler(fn) registration returns fn; a
\* later check uses the most recently registered user loader (user omitted)
\* and failure handler (denied without on_failure); hooks passed to the
\* constructor behave as if registered by the setters.
C15_LatestRegistrationWins == [][C15Step]_vars

\* A denied ensure without user or on_failure ran the two registered hooks.
C15_Witness ==
    /\ last.op = "ensure"
    /\ last.user = None
    /\ last.on_failure = None
    /\ _user_loader[last.self] = "load_anon"
    /\ _error_handler[last.self] = "audit"
    /\ last.events = <<Ev("user_loader", "load_anon", <<>>),
                       Ev("test", "always_false", <<"Anon", "Doc1">>),
                       Ev("handler", "audit", <<"always_false", "Anon", "Doc1">>)>>

\* C17: no call of ensure, test, requires or a requires wrapper, whatever its
\* outcome, changes the configured user loader or failure handler.
C17_ChecksLeaveHooks ==
    [][last'.op \in {"ensure", "test", "requires", "wrapper"} =>
           /\ _user_loader' = _user_loader
           /\ _error_handler' = _error_handler
           /\ klass' = klass]_vars

\* An ensure aborted by its on_failure handler; the registered hooks remain.
C17_Witness ==
    /\ last.op = "ensure"
    /\ last.on_failure = "deny_user"
    /\ last.exc.type = "CustomDenied"
    /\ _user_loader[last.self] = "load_alice"
    /\ _error_handler[last.self] = "audit"

\* ---------------------------------------------------------------- two instances

\* Two Enforcer objects constructed, configured and checked in any order.
NextIso ==
    \/ \E self \in Enforcers, cls \in Classes,
          ul \in UserLoaders \cup {None}, eh \in Handlers \cup {None} :
          __init__(self, cls, ul, eh)
    \/ \E self \in Enforcers, fn \in UserLoaders : UserLoader(self, fn)
    \/ \E self \in Enforcers, fn \in Handlers : ErrorHandler(self, fn)
    \/ \E self \in Enforcers : Ensure(self, "always_false", None, None, None)

SpecIso == Init /\ [][NextIso]_vars

\* A registration or a construction on one instance leaves every other
\* instance's hooks as they were; an instance constructed without hooks has
\* none of its own, whatever was registered on the others; a check calls the
\* hooks of the instance it is called on, its class's defaults if it has none.
C18Step ==
    /\ \A e \in Enforcers :
           (last'.op \in {"user_loader", "error_handler", "__init__"} /\ last'.self # e) =>
               /\ _user_loader'[e] = _user_loader[e]
               /\ _error_handler'[e] = _error_handler[e]
               /\ klass'[e] = klass[e]
    /\ (last'.op = "__init__" /\ last'.fn = None) =>
           _user_loader'[last'.self] = Unset
    /\ (last'.op = "__init__" /\ last'.on_failure = None) =>
           _error_handler'[last'.self] = Unset
    /\ last'.op = "ensure" =>
           /\ \A i \in Kinds(last', "user_loader") :
                  last'.events[i].fn =
                      IF _user_loader[last'.self] # Unset THEN _user_loader[last'.self]
                      ELSE ClassAttr(klass[last'.self], "_user_loader")
           /\ \A i \in Kinds(last', "handler") :
                  last'.events[i].fn =
                      IF _error_handler[last'.self] # Unset
                      THEN _error_handler[last'.self]
                      ELSE ClassAttr(klass[last'.self], "_error_handler")

\* C18: registering a user loader or failure handler on one Enforcer instance
\* never changes the hooks used by another instance, including one created
\* later, which still starts with the default hooks.
C18_InstanceIsolation == [][C18Step]_vars

\* e2 was just constructed without hooks after hooks were registered on e1.
C18_Witness ==
    /\ last.op = "__init__"
    /\ last.self = "e2"
    /\ _user_loader["e1"] = "load_alice"
    /\ _error_handler["e1"] = "deny"
    /\ _user_loader["e2"] = Unset
    /\ _error_handler["e2"] = Unset

====
